---- MODULE Spec2Model ----
(***************************************************************************)
(* The feed ingestion run of aaronzipp/feeder (the ingestion main package) *)
(* over the sqlite store of database/schema.sql and database/query.sql.    *)
(*                                                                         *)
(* One run is main(): ListFeeds, then for each feed in list order          *)
(* dispatch on the type, fetch and decode, resolve and store each item,    *)
(* update the date format hint, update last_updated_at.  The store, the    *)
(* web and the coordinator's locals are the state; the lines printed and   *)
(* the calls made during the current run are recorded beside them.         *)
(***************************************************************************)
EXTENDS Integers, Sequences, FiniteSets, TLC

\* ------------------------------------------------------------------ bounds

MaxFeeds == 2
MaxItems == 2
MaxRuns == 2
MaxFaults == 1
MaxMarks == 1
MaxPosts == 2
MaxKeys == 4
MaxInflight == 2

\* ------------------------------------------------------- Go time layouts

RFC3339 == "2006-01-02T15:04:05Z07:00"
RFC1123Z == "Mon, 02 Jan 2006 15:04:05 -0700"
RFC1123 == "Mon, 02 Jan 2006 15:04:05 MST"
RFC822Z == "02 Jan 06 15:04 -0700"
RFC822 == "02 Jan 06 15:04 MST"
DateTimeLayout == "2006-01-02 15:04:05"
DateOnlyLayout == "2006-01-02"

\* A layout that is not among parseDate's candidates: a date_format that
\* was stored by hand.
RFC3339Nano == "2006-01-02T15:04:05.999999999Z07:00"

\* parseDate's candidate list, in its order.
formats ==
    << RFC3339, RFC1123Z, RFC1123, RFC822Z, RFC822, DateTimeLayout, DateOnlyLayout >>

\* time.Time{}: the zero instant.
ZeroTime == [date |-> "0001-01-01", clock |-> "00:00:00", zone |-> "Z"]

\* time.Parse(layout, value) on the date strings of the model: the instant
\* each string denotes under each layout that accepts it.  A pair that is
\* not listed is a parse error.  Zone abbreviations GMT and UTC have offset
\* zero; a two-digit year below 69 is 20yy.  The fraction of a second of
\* RFC3339Nano is optional in the value; the empty layout parses the empty
\* string, to the zero instant.
ParseTable ==
    { << "", "", [date |-> "0001-01-01", clock |-> "00:00:00", zone |-> "Z"] >>,
      << RFC3339Nano, "2024-05-06T07:08:09+02:00",
         [date |-> "2024-05-06", clock |-> "07:08:09", zone |-> "+02:00"] >>,
      << RFC3339, "2024-05-06T07:08:09+02:00",
         [date |-> "2024-05-06", clock |-> "07:08:09", zone |-> "+02:00"] >>,
      << RFC1123Z, "Mon, 02 Jan 2006 15:04:05 -0700",
         [date |-> "2006-01-02", clock |-> "15:04:05", zone |-> "-07:00"] >>,
      << RFC1123, "Tue, 07 May 2024 10:00:00 GMT",
         [date |-> "2024-05-07", clock |-> "10:00:00", zone |-> "Z"] >>,
      << RFC822Z, "08 May 24 11:30 +0100",
         [date |-> "2024-05-08", clock |-> "11:30:00", zone |-> "+01:00"] >>,
      << RFC822, "09 May 24 12:45 UTC",
         [date |-> "2024-05-09", clock |-> "12:45:00", zone |-> "Z"] >>,
      << DateTimeLayout, "2024-05-10 13:14:15",
         [date |-> "2024-05-10", clock |-> "13:14:15", zone |-> "Z"] >>,
      << DateOnlyLayout, "2024-05-11",
         [date |-> "2024-05-11", clock |-> "00:00:00", zone |-> "Z"] >> }

timeParse(layout, value) ==
    IF \E e \in ParseTable : e[1] = layout /\ e[2] = value
    THEN [t |-> (CHOOSE e \in ParseTable : e[1] = layout /\ e[2] = value)[3],
          err |-> FALSE]
    ELSE [t |-> ZeroTime, err |-> TRUE]

\* t.Format(time.RFC3339): date, "T", clock and zone put together.
FormatRFC3339(t) == << t.date, "T", t.clock, t.zone >>

\* ------------------------------------------------------------ Date Resolver

\* The for loop of parseDate from candidate i on: the first layout that
\* parses wins; past the end, the error return.
RECURSIVE parseDateFrom(_, _)
parseDateFrom(dateStr, i) ==
    IF i > Len(formats)
    THEN [t |-> ZeroTime, format |-> "", err |-> TRUE]
    ELSE IF ~timeParse(formats[i], dateStr).err
         THEN [t |-> timeParse(formats[i], dateStr).t, format |-> formats[i],
               err |-> FALSE]
         ELSE parseDateFrom(dateStr, i + 1)

\* parseDate with the first candidate left out of the loop.
parseDateSkippingFirst(dateStr) == parseDateFrom(dateStr, 2)

parseDate(dateStr) == parseDateFrom(dateStr, 1)

\* sql.NullString
NullString == [Valid |-> FALSE, String |-> ""]
ValidString(s) == [Valid |-> TRUE, String |-> s]

\* Whether parseDateWithFormat returns from its hint branch.
hintHits(dateStr, knownFormat) ==
    /\ knownFormat.Valid
    /\ knownFormat.String # ""
    /\ ~timeParse(knownFormat.String, dateStr).err

\* parseDateWithFormat without its hint branch.
parseDateIgnoringHint(dateStr, knownFormat) ==
    [t |-> parseDate(dateStr).t, format |-> parseDate(dateStr).format,
     err |-> parseDate(dateStr).err, scanned |-> TRUE]

\* parseDateWithFormat; scanned tells whether parseDate was called.
parseDateWithFormat(dateStr, knownFormat) ==
    IF hintHits(dateStr, knownFormat)
    THEN [t |-> timeParse(knownFormat.String, dateStr).t,
          format |-> knownFormat.String, err |-> FALSE, scanned |-> FALSE]
    ELSE [t |-> parseDate(dateStr).t, format |-> parseDate(dateStr).format,
          err |-> parseDate(dateStr).err, scanned |-> TRUE]

\* ---------------------------------------------------------------- the web

\* An HTTP response: the status line and the body.  A body is XML text:
\* well formed or not, with a root element (rss or feed), its items or
\* entries (title, link, publication date) and its lastBuildDate or updated.
MalformedBody == [wellFormed |-> FALSE, root |-> "", items |-> << >>, updated |-> ""]

\* xml.Unmarshal(body, &feed) into RSS (kind "rss") or Atom (kind "atom").
\* Text that is not well formed is an error.  Neither struct names its root
\* element, so a document of the other kind decodes without error to no
\* items and an empty date.
xmlUnmarshal(body, kind) ==
    IF ~body.wellFormed
    THEN [err |-> TRUE, items |-> << >>, LastUpdated |-> ""]
    ELSE IF (kind = "rss" /\ body.root = "rss") \/ (kind = "atom" /\ body.root = "feed")
         THEN [err |-> FALSE, items |-> body.items, LastUpdated |-> body.updated]
         ELSE [err |-> FALSE, items |-> << >>, LastUpdated |-> ""]

\* parseFeed: http.Get, io.ReadAll, xml.Unmarshal.  net is what the network
\* does to this request: "ok", "get" (http.Get fails) or "read" (reading the
\* body fails).  The status of the response is not looked at.  got and
\* decoded tell whether a response arrived and whether its body was handed
\* to the decoder.
parseFeed(response, net, kind) ==
    IF net = "get"
    THEN [err |-> TRUE, got |-> FALSE, decoded |-> FALSE, items |-> << >>,
          LastUpdated |-> ""]
    ELSE IF net = "read"
         THEN [err |-> TRUE, got |-> TRUE, decoded |-> FALSE, items |-> << >>,
               LastUpdated |-> ""]
         ELSE [err |-> xmlUnmarshal(response.body, kind).err, got |-> TRUE,
               decoded |-> TRUE,
               items |-> xmlUnmarshal(response.body, kind).items,
               LastUpdated |-> xmlUnmarshal(response.body, kind).LastUpdated]

\* The item loops of getRSSFeed and getAtomFeed: raw items to NormalizedItem.
normalize(rawItems) ==
    [i \in 1..Len(rawItems) |->
        [Title |-> rawItems[i].title, URL |-> rawItems[i].link,
         Published |-> rawItems[i].published]]

getRSSFeed(response, net) ==
    IF parseFeed(response, net, "rss").err
    THEN [parseFeed(response, net, "rss") EXCEPT !.items = << >>, !.LastUpdated = ""]
    ELSE [parseFeed(response, net, "rss") EXCEPT
            !.items = normalize(parseFeed(response, net, "rss").items)]

getAtomFeed(response, net) ==
    IF parseFeed(response, net, "atom").err
    THEN [parseFeed(response, net, "atom") EXCEPT !.items = << >>, !.LastUpdated = ""]
    ELSE [parseFeed(response, net, "atom") EXCEPT
            !.items = normalize(parseFeed(response, net, "atom").items)]

\* -------------------------------------------------------------- the store

\* Table post without its unique constraint.
conflictsNever(rows, url, feedID) == FALSE

\* unique (url, feed_id) of table post.
conflicts(rows, url, feedID) ==
    \E i \in 1..Len(rows) : rows[i].url = url /\ rows[i].feed_id = feedID

\* CreatePost as an upsert: a conflict overwrites the title and timestamp.
CreatePostUpsert(rows, title, url, publishedAt, feedID) ==
    IF conflicts(rows, url, feedID)
    THEN [i \in 1..Len(rows) |->
            IF rows[i].url = url /\ rows[i].feed_id = feedID
            THEN [rows[i] EXCEPT !.title = title, !.published_at = publishedAt]
            ELSE rows[i]]
    ELSE Append(rows, [id |-> Len(rows) + 1, title |-> title, url |-> url,
                       published_at |-> publishedAt, feed_id |-> feedID,
                       is_archived |-> 0, is_starred |-> 0])

\* CreatePost as insert or replace: a conflict puts the new row, with the
\* column defaults, in the place of the stored one.
CreatePostReplace(rows, title, url, publishedAt, feedID) ==
    IF conflicts(rows, url, feedID)
    THEN [i \in 1..Len(rows) |->
            IF rows[i].url = url /\ rows[i].feed_id = feedID
            THEN [id |-> rows[i].id, title |-> title, url |-> url,
                  published_at |-> publishedAt, feed_id |-> feedID,
                  is_archived |-> 0, is_starred |-> 0]
            ELSE rows[i]]
    ELSE Append(rows, [id |-> Len(rows) + 1, title |-> title, url |-> url,
                       published_at |-> publishedAt, feed_id |-> feedID,
                       is_archived |-> 0, is_starred |-> 0])

\* CreatePost: insert or ignore.  The row gets the next id and the column
\* defaults is_archived = 0, is_starred = 0.
CreatePost(rows, title, url, publishedAt, feedID) ==
    IF conflicts(rows, url, feedID)
    THEN rows
    ELSE Append(rows, [id |-> Len(rows) + 1, title |-> title, url |-> url,
                       published_at |-> publishedAt, feed_id |-> feedID,
                       is_archived |-> 0, is_starred |-> 0])

\* UpdateFeedFormat: update feed set date_format = ? where id = ?
UpdateFeedFormat(rows, dateFormat, id) ==
    [i \in 1..Len(rows) |->
        IF rows[i].id = id THEN [rows[i] EXCEPT !.date_format = dateFormat]
        ELSE rows[i]]

\* UpdateFeedDate: update feed set last_updated_at = ? where id = ?
UpdateFeedDate(rows, lastUpdatedAt, id) ==
    [i \in 1..Len(rows) |->
        IF rows[i].id = id THEN [rows[i] EXCEPT !.last_updated_at = lastUpdatedAt]
        ELSE rows[i]]

\* The browser's store commands on one post: archivePostCmd, unarchivePostCmd,
\* starPostCmd, and unstarPostCmd, which unstars and archives.
markPost(rows, id, op) ==
    [i \in 1..Len(rows) |->
        IF rows[i].id # id THEN rows[i]
        ELSE CASE op = "archive" -> [rows[i] EXCEPT !.is_archived = 1]
               [] op = "unarchive" -> [rows[i] EXCEPT !.is_archived = 0]
               [] op = "star" -> [rows[i] EXCEPT !.is_starred = 1]
               [] OTHER -> [rows[i] EXCEPT !.is_starred = 0, !.is_archived = 1]]

\* --------------------------------------------------------------- the state

VARIABLES
    feeds,              \* table feed, in the order ListFeeds returns it
    posts,              \* table post, in insertion order
    web,                \* what each feed URL serves
    pc,                 \* where main is: idle, feed, items, format, date, done, fatal
    feedList,           \* main's feeds: the result of ListFeeds
    fi,                 \* index of the feed of the current iteration
    items,              \* main's items
    lastUpdatedAt,      \* main's lastUpdatedAt
    ii,                 \* index of the item of the current iteration
    detectedFormat,     \* main's detectedFormat
    needsFormatUpdate,  \* main's needsFormatUpdate
    trace,              \* the calls made and lines printed in the current run
    runs,               \* runs started
    netFaults,          \* network failures the environment may still cause
    storeFaults,        \* store errors the environment may still cause
    marks               \* browser commands the user may still issue

\* A call of the Date Resolver on its own.
VARIABLES
    argDateStr,         \* the dateStr passed to parseDateWithFormat
    argKnownFormat,     \* the knownFormat passed
    result              \* << >> before the call, the one result after it

resolver == << argDateStr, argKnownFormat, result >>

\* The browser: the model of tui.go and the commands of the program that
\* runs it.
VARIABLES
    currentScreen,      \* m.currentScreen: inbox, archive or starred
    listItems,          \* the items of m.list: the ids of the posts shown
    cursor,             \* m.list.Index()
    lastKey,            \* m.lastKey
    settingFilter,      \* m.list.SettingFilter()
    inflight,           \* the commands issued and the messages not yet handled
    quit,               \* tea.Quit was returned
    opened,             \* the URLs handed to openBrowser
    keys,               \* keys pressed
    guarded             \* the last key was pressed while a filter was entered

browser ==
    << currentScreen, listItems, cursor, lastKey, settingFilter, inflight, quit,
       opened, keys, guarded >>

\* The state beside the ingestion run.
beside == << resolver, browser >>

vars ==
    << feeds, posts, web, pc, feedList, fi, items, lastUpdatedAt, ii,
       detectedFormat, needsFormatUpdate, trace, runs, netFaults, storeFaults,
       marks, beside >>

store == << feeds, posts >>
locals == << items, lastUpdatedAt, ii, detectedFormat, needsFormatUpdate >>
env == << web, runs, marks >>

\* One entry of trace: a call (http.Get, xml.Unmarshal, resolve, CreatePost,
\* UpdateFeedFormat, UpdateFeedDate), a printed line (print) or log.Fatal.
\* A resolve is a call of parseDateWithFormat: its arg is the item's index
\* (0 for the feed level date), whether parseDate was called, and the hint
\* passed.
Event(ev, feedID, arg, err) == [ev |-> ev, feed |-> feedID, arg |-> arg, err |-> err]

\* ------------------------------------------------------------- the inputs

\* A slot of inflight: free, or a command.  kind is load, archive,
\* unarchive, star or unstar; screen is loadPostsCmd's screen and postID the
\* others' post.  ran tells whether the command's function has run; its
\* message then holds posts and err, and failed tells whether a store call
\* of the command returned an error.
Free ==
    [kind |-> "none", screen |-> "", postID |-> 0, ran |-> FALSE, posts |-> << >>,
     err |-> FALSE, failed |-> FALSE]

\* The browser is not running.
BrowserClosed ==
    /\ currentScreen = "inbox"
    /\ listItems = << >>
    /\ cursor = 0
    /\ lastKey = ""
    /\ settingFilter = FALSE
    /\ inflight = [n \in 1..MaxInflight |-> Free]
    /\ quit = TRUE
    /\ opened = << >>
    /\ keys = MaxKeys
    /\ guarded = FALSE

FeedTypes == {"rss", "atom", "custom", "weird"}
FeedURL == "https://x/feed.xml"
Titles == {"a", "b"}
Links == {"https://x/1", "https://x/2"}
DateA == "2024-05-06T07:08:09+02:00"
DateB == "Mon, 02 Jan 2006 15:04:05 -0700"
DateBad == "yesterday"
DateStrs == {DateA, DateB, DateBad}
UpdatedStrs == {"", DateB, DateBad}
Hints == {NullString, ValidString(RFC3339), ValidString(RFC1123Z)}

SeqsUpTo(S, n) == UNION {[1..k -> S] : k \in 0..n}

Least(S) == CHOOSE i \in S : \A j \in S : i <= j

RawItems == [title : Titles, link : Links, published : DateStrs]

Documents(n) ==
    [wellFormed : {TRUE}, root : {"rss", "feed"}, items : SeqsUpTo(RawItems, n),
     updated : UpdatedStrs]

\* Responses: any status over any body.
Responses(n) == [status : {200, 404}, body : Documents(n) \cup {MalformedBody}]
OkResponses(n) == [status : {200}, body : Documents(n)]

\* A feed table of n rows with ids 1..n, as CreateFeed leaves the rows
\* (last_updated_at null) and with the date format hints earlier runs left.
FeedTables(types, hints) ==
    UNION {
        { [i \in 1..n |->
             [id |-> i, url |-> FeedURL, feed_type |-> ty[i],
              last_updated_at |-> NullString, date_format |-> h[i]]] :
          ty \in [1..n -> types], h \in [1..n -> hints] } :
        n \in 0..MaxFeeds }

InitWith(tables, responses, nf, sf) ==
    /\ feeds \in tables
    /\ posts = << >>
    /\ web \in [{FeedURL} -> responses]
    /\ pc = "idle"
    /\ feedList = << >>
    /\ fi = 0
    /\ items = << >>
    /\ lastUpdatedAt = ""
    /\ ii = 0
    /\ detectedFormat = ""
    /\ needsFormatUpdate = FALSE
    /\ trace = << >>
    /\ runs = 0
    /\ netFaults \in nf
    /\ storeFaults \in sf
    /\ marks = MaxMarks
    /\ argDateStr = ""
    /\ argKnownFormat = NullString
    /\ result = << >>
    /\ BrowserClosed

\* The inputs come in two families.  Item processing: feeds of the two
\* implemented types with any hint, a site that answers 200 with a document
\* of up to MaxItems items, and a network that works.  Dispatch and fetch:
\* feeds of any type, a site that answers any status with any body of at
\* most one item, and a network that may fail MaxFaults times.
InitItems ==
    InitWith(FeedTables({"rss", "atom"}, Hints), OkResponses(MaxItems), {0}, {0})

InitFetch ==
    InitWith(FeedTables(FeedTypes, {NullString}), Responses(1), 0..MaxFaults, {0})

Init == InitItems \/ InitFetch

\* ------------------------------------------------------------ the actions

NetOutcomes == IF netFaults > 0 THEN {"ok", "get", "read"} ELSE {"ok"}
StoreOutcomes == IF storeFaults > 0 THEN {TRUE, FALSE} ELSE {TRUE}

\* The pc of the next iteration of the feed loop, or done after the last.
NextFeedPc == IF fi + 1 > Len(feedList) THEN "done" ELSE "feed"

ClearLocals ==
    /\ items' = << >>
    /\ lastUpdatedAt' = ""
    /\ ii' = 0
    /\ detectedFormat' = ""
    /\ needsFormatUpdate' = FALSE

\* A run begins: openDB and ListFeeds.
StartRun ==
    /\ pc \in {"idle", "done", "fatal"}
    /\ runs < MaxRuns
    /\ runs' = runs + 1
    /\ feedList' = feeds
    /\ fi' = 1
    /\ pc' = IF Len(feeds) = 0 THEN "done" ELSE "feed"
    /\ trace' = << >>
    /\ ClearLocals
    /\ UNCHANGED << store, web, marks, netFaults, storeFaults, beside >>

\* The head of one iteration of the feed loop: the switch on feed.FeedType
\* and the err check after it.
FetchEvents(feed, res) ==
    << Event("http.Get", feed.id, feed.url, ~res.got) >>
    \o (IF res.decoded
        THEN << Event("xml.Unmarshal", feed.id, feed.url, res.err) >> ELSE << >>)
    \o (IF res.err
        THEN << Event("print", feed.id, "Can't parse feed", TRUE) >> ELSE << >>)

\* A return in the place of the continue: the run ends at the failed feed.
onFeedErrorReturn == "done"

\* The continue after "Can't parse feed": on to the next feed.
onFeedError == NextFeedPc

Fetched(feed, res) ==
    /\ trace' = trace \o FetchEvents(feed, res)
    /\ IF res.err
       THEN /\ fi' = fi + 1
            /\ pc' = onFeedError
            /\ ClearLocals
       ELSE /\ fi' = fi
            /\ items' = res.items
            /\ lastUpdatedAt' = res.LastUpdated
            /\ ii' = 1
            /\ detectedFormat' = ""
            /\ needsFormatUpdate' = FALSE
            /\ pc' = IF Len(res.items) = 0 THEN "format" ELSE "items"

\* The switch with custom falling into the rss case.
dispatchCustomAsRss(feedType) ==
    CASE feedType = "rss" -> "rss"
      [] feedType = "atom" -> "atom"
      [] feedType = "custom" -> "rss"
      [] OTHER -> "continue"

\* The switch with a default that parses the feed as rss.
dispatchDefaultAsRss(feedType) ==
    CASE feedType = "rss" -> "rss"
      [] feedType = "atom" -> "atom"
      [] feedType = "custom" -> "fatal"
      [] OTHER -> "rss"

\* The switch on feed.FeedType: the branch taken.
dispatch(feedType) ==
    CASE feedType = "rss" -> "rss"
      [] feedType = "atom" -> "atom"
      [] feedType = "custom" -> "fatal"
      [] OTHER -> "continue"

Dispatch ==
    /\ pc = "feed"
    /\ LET feed == feedList[fi] IN
       CASE dispatch(feed.feed_type) = "rss" ->
              \E net \in NetOutcomes :
                /\ Fetched(feed, getRSSFeed(web[feed.url], net))
                /\ netFaults' = IF net = "ok" THEN netFaults ELSE netFaults - 1
         [] dispatch(feed.feed_type) = "atom" ->
              \E net \in NetOutcomes :
                /\ Fetched(feed, getAtomFeed(web[feed.url], net))
                /\ netFaults' = IF net = "ok" THEN netFaults ELSE netFaults - 1
         [] dispatch(feed.feed_type) = "fatal" ->
              /\ pc' = "fatal"
              /\ trace' = Append(trace, Event("log.Fatal", feed.id,
                                    "'custom' option is not implemented yet.", TRUE))
              /\ UNCHANGED << fi, locals, netFaults >>
         [] OTHER ->
              /\ fi' = fi + 1
              /\ pc' = NextFeedPc
              /\ UNCHANGED << trace, locals, netFaults >>
    /\ UNCHANGED << store, env, feedList, storeFaults, beside >>

\* The head of the item loop: on to the next item, or out of the loop.
NextItemPc == IF ii + 1 > Len(items) THEN "format" ELSE "items"

\* A break in the place of the continue: the item loop ends at the item.
onDateErrorBreak == "format"

\* The continue after "Failed parsing date": on to the next item.
onDateError == NextItemPc

\* A hint update only for a feed that has no hint yet.
needsUpdateWhenUnset(dateFormat, usedFormat) == ~dateFormat.Valid

\* Whether the format an item resolved with calls for a hint update.
needsUpdate(dateFormat, usedFormat) ==
    ~dateFormat.Valid \/ dateFormat.String # usedFormat

\* log.Fatal in the place of the Printf of a failed store call.
onWriteErrorFatal(next) == "fatal"

\* After a store call that failed, a line is printed and main goes on to
\* where it goes after one that succeeded.
onWriteError(next) == next

\* The hint read again from table feed at each use.
readHintFresh(listed, stored) == stored

\* feed.DateFormat: the field of the row ListFeeds returned.  The table is
\* not read again during the run.
readHint(listed, stored) == listed

\* The detected format taken from every item that resolves.
detectsEveryItem(detected, usedFormat) == usedFormat # ""

\* Whether an item that resolved with usedFormat sets the detected format:
\* only while none is detected yet.
detects(detected, usedFormat) == detected = "" /\ usedFormat # ""

\* One iteration of the item loop.
ProcessItem ==
    /\ pc = "items"
    /\ LET feed == feedList[fi]
           item == items[ii]
           known == readHint(feed.date_format, feeds[fi].date_format)
           r == parseDateWithFormat(item.Published, known)
           resolve == Event("resolve", feed.id, << ii, r.scanned, known >>, r.err)
       IN
       IF r.err
       THEN /\ trace' = trace \o << resolve,
                                   Event("print", feed.id, "Failed parsing date for post", TRUE) >>
            /\ pc' = onDateError
            /\ UNCHANGED << store, detectedFormat, needsFormatUpdate, storeFaults >>
       ELSE /\ IF detects(detectedFormat, r.format)
               THEN /\ detectedFormat' = r.format
                    /\ needsFormatUpdate' =
                         IF needsUpdate(known, r.format)
                         THEN TRUE ELSE needsFormatUpdate
               ELSE UNCHANGED << detectedFormat, needsFormatUpdate >>
            /\ \E ok \in StoreOutcomes :
                 /\ posts' = IF ok
                             THEN CreatePost(posts, item.Title, item.URL,
                                             FormatRFC3339(r.t), feed.id)
                             ELSE posts
                 /\ storeFaults' = IF ok THEN storeFaults ELSE storeFaults - 1
                 /\ trace' = trace
                      \o << resolve,
                            Event("CreatePost", feed.id, item.URL, ~ok) >>
                      \o (IF ok THEN << >>
                          ELSE << Event("print", feed.id, "Failed writing post", TRUE) >>)
                 /\ pc' = IF ok THEN NextItemPc ELSE onWriteError(NextItemPc)
            /\ UNCHANGED feeds
    /\ ii' = ii + 1
    /\ UNCHANGED << env, feedList, fi, items, lastUpdatedAt, netFaults, beside >>

\* After the item loop: the date format hint is written when one was
\* detected that differs from the one read.
UpdateFormat ==
    /\ pc = "format"
    /\ LET feed == feedList[fi] IN
       IF needsFormatUpdate /\ detectedFormat # ""
       THEN \E ok \in StoreOutcomes :
              /\ feeds' = IF ok
                          THEN UpdateFeedFormat(feeds, ValidString(detectedFormat), feed.id)
                          ELSE feeds
              /\ storeFaults' = IF ok THEN storeFaults ELSE storeFaults - 1
              /\ trace' = trace
                   \o << Event("UpdateFeedFormat", feed.id, detectedFormat, ~ok) >>
                   \o (IF ok THEN << >>
                       ELSE << Event("print", feed.id, "Failed updating feed format", TRUE) >>)
              /\ pc' = IF ok THEN "date" ELSE onWriteError("date")
       ELSE /\ pc' = "date"
            /\ UNCHANGED << feeds, storeFaults, trace >>
    /\ UNCHANGED << posts, env, feedList, fi, locals, netFaults, beside >>

\* The feed level date dropped when it does not resolve.
resolvedOrEmpty(raw, knownFormat) ==
    IF raw # "" /\ ~parseDateWithFormat(raw, knownFormat).err
    THEN FormatRFC3339(parseDateWithFormat(raw, knownFormat).t)
    ELSE ""

\* The end of the iteration: the feed level date is resolved when there is
\* one, and last_updated_at is written.
resolvedLastUpdated(raw, knownFormat) ==
    IF raw # "" /\ ~parseDateWithFormat(raw, knownFormat).err
    THEN FormatRFC3339(parseDateWithFormat(raw, knownFormat).t)
    ELSE raw

UpdateDate ==
    /\ pc = "date"
    /\ LET feed == feedList[fi]
           known == readHint(feed.date_format, feeds[fi].date_format)
           value == resolvedLastUpdated(lastUpdatedAt, known)
           resolve ==
               IF lastUpdatedAt = "" THEN << >>
               ELSE LET r == parseDateWithFormat(lastUpdatedAt, known) IN
                    << Event("resolve", feed.id, << 0, r.scanned, known >>, r.err) >>
       IN
       \E ok \in StoreOutcomes :
         /\ feeds' = IF ok THEN UpdateFeedDate(feeds, ValidString(value), feed.id)
                     ELSE feeds
         /\ storeFaults' = IF ok THEN storeFaults ELSE storeFaults - 1
         /\ trace' = trace \o resolve
              \o << Event("UpdateFeedDate", feed.id, value, ~ok) >>
              \o (IF ok THEN << >>
                  ELSE << Event("print", feed.id, "Failed updating feed date", TRUE) >>)
         /\ pc' = IF ok THEN NextFeedPc ELSE onWriteError(NextFeedPc)
    /\ fi' = fi + 1
    /\ ClearLocals
    /\ UNCHANGED << posts, env, feedList, netFaults, beside >>

\* Between runs the user of the browser archives, unarchives, stars or
\* unstars a stored post.
BrowserMark ==
    /\ pc \in {"idle", "done", "fatal"}
    /\ marks > 0
    /\ \E i \in 1..Len(posts), op \in {"archive", "unarchive", "star", "unstar"} :
         posts' = markPost(posts, posts[i].id, op)
    /\ marks' = marks - 1
    /\ UNCHANGED << feeds, web, runs, pc, feedList, fi, locals, trace, netFaults,
                    storeFaults, beside >>

Next ==
    \/ StartRun
    \/ Dispatch
    \/ ProcessItem
    \/ UpdateFormat
    \/ UpdateDate
    \/ BrowserMark

Spec == Init /\ [][Next]_vars

\* The runs over a network that never fails.
InitReliable == Init /\ netFaults = 0

SpecReliable == InitReliable /\ [][Next]_vars

\* ------------------------------------------------ the Date Resolver alone

\* The date strings and hints the resolver is called with: a string of each
\* candidate layout, one no layout parses, the empty string of an item
\* without a date; no hint, the empty hint, each candidate as the hint, and
\* a layout that is not a candidate.
ResolverDates == {e[2] : e \in ParseTable} \cup {DateBad}

ResolverHints ==
    {NullString, ValidString("")}
    \cup {ValidString(formats[i]) : i \in 1..Len(formats)}
    \cup {ValidString(RFC3339Nano)}

\* The ingestion run at rest: a site that serves an empty rss document, no
\* run to come.
IngestionAtRest ==
    /\ web = [u \in {FeedURL} |->
                [status |-> 200,
                 body |-> [wellFormed |-> TRUE, root |-> "rss", items |-> << >>,
                           updated |-> ""]]]
    /\ pc = "idle"
    /\ feedList = << >>
    /\ fi = 0
    /\ items = << >>
    /\ lastUpdatedAt = ""
    /\ ii = 0
    /\ detectedFormat = ""
    /\ needsFormatUpdate = FALSE
    /\ trace = << >>
    /\ runs = MaxRuns
    /\ netFaults = 0
    /\ marks = 0

InitResolver ==
    /\ IngestionAtRest
    /\ storeFaults = 0
    /\ feeds = << >>
    /\ posts = << >>
    /\ BrowserClosed
    /\ argDateStr \in ResolverDates
    /\ argKnownFormat \in ResolverHints
    /\ result = << >>

\* One call of parseDateWithFormat.
Resolve ==
    /\ result = << >>
    /\ result' = << parseDateWithFormat(argDateStr, argKnownFormat) >>
    /\ UNCHANGED << store, env, pc, feedList, fi, locals, trace, netFaults,
                    storeFaults, argDateStr, argKnownFormat, browser >>

NextResolver == Resolve

SpecResolver == InitResolver /\ [][NextResolver]_vars

\* The runs over a store that fails: rss feeds with any hint, a site that
\* answers 200 with a document of up to MaxItems items, a network that
\* works, and a store of which up to MaxFaults calls return an error.
InitFaulty ==
    InitWith(FeedTables({"rss"}, Hints), OkResponses(MaxItems), {0}, 1..MaxFaults)

SpecFaulty == InitFaulty /\ [][Next]_vars

\* ------------------------------------------------------------ the browser

\* UnstarPost: update post set is_starred = 0 where id = ?
UnstarPost(rows, id) ==
    [i \in 1..Len(rows) |->
        IF rows[i].id = id THEN [rows[i] EXCEPT !.is_starred = 0] ELSE rows[i]]

\* The dates of the posts the browser is opened on, in the order of their
\* canonical text.
Chronology == << "2006-01-02", "2024-05-06", "2024-05-07" >>

\* The place of a canonical timestamp in the order of published_at.
Rank(publishedAt) == CHOOSE n \in 1..Len(Chronology) : Chronology[n] = publishedAt[1]

\* order by p.published_at desc, over the rows with the ids in S.
RECURSIVE NewestFirst(_, _)
NewestFirst(rows, S) ==
    IF S = {} THEN << >>
    ELSE LET top == CHOOSE i \in S :
                       \A j \in S : Rank(rows[j].published_at) <= Rank(rows[i].published_at)
         IN << rows[top].id >> \o NewestFirst(rows, S \ {top})

\* ListInbox, ListArchive and ListStarred of query.sql: the ids of the
\* posts of the screen, newest first.  Every post has its feed.
Listing(screen, rows) ==
    NewestFirst(rows,
        {i \in 1..Len(rows) :
            CASE screen = "inbox" -> rows[i].is_archived = 0 /\ rows[i].is_starred = 0
              [] screen = "archive" -> rows[i].is_archived = 1 /\ rows[i].is_starred = 0
              [] OTHER -> rows[i].is_starred = 1})

\* The tables the browser is opened on: one feed and up to MaxPosts posts
\* of it, each archived or not and starred or not.
BrowserFeeds ==
    << [id |-> 1, url |-> FeedURL, feed_type |-> "rss",
        last_updated_at |-> NullString, date_format |-> NullString] >>

Stamps ==
    << FormatRFC3339([date |-> "2006-01-02", clock |-> "15:04:05", zone |-> "-07:00"]),
       FormatRFC3339([date |-> "2024-05-06", clock |-> "07:08:09", zone |-> "+02:00"]),
       FormatRFC3339([date |-> "2024-05-07", clock |-> "10:00:00", zone |-> "Z"]) >>

PostUrls == << "https://x/1", "https://x/2", "https://x/3" >>

BrowserPosts ==
    UNION {
        { [i \in 1..n |->
             [id |-> i, title |-> "a", url |-> PostUrls[i],
              published_at |-> Stamps[i], feed_id |-> 1,
              is_archived |-> a[i], is_starred |-> st[i]]] :
          a \in [1..n -> {0, 1}], st \in [1..n -> {0, 1}] } :
        n \in 0..MaxPosts }

\* Run: ListInbox, then InitialModel on its rows.
InitBrowser ==
    /\ IngestionAtRest
    /\ feeds = BrowserFeeds
    /\ posts \in BrowserPosts
    /\ storeFaults \in 0..MaxFaults
    /\ argDateStr = ""
    /\ argKnownFormat = NullString
    /\ result = << >>
    /\ currentScreen = "inbox"
    /\ listItems = Listing("inbox", posts)
    /\ cursor = 0
    /\ lastKey = ""
    /\ settingFilter = FALSE
    /\ inflight = [n \in 1..MaxInflight |-> Free]
    /\ quit = FALSE
    /\ opened = << >>
    /\ keys = 0
    /\ guarded = FALSE

\* The commands: what Update returns beside the model.
loadPostsCmd(screen) == [Free EXCEPT !.kind = "load", !.screen = screen]
archivePostCmd(postID) == [Free EXCEPT !.kind = "archive", !.postID = postID]
unarchivePostCmd(postID) == [Free EXCEPT !.kind = "unarchive", !.postID = postID]
starPostCmd(postID) == [Free EXCEPT !.kind = "star", !.postID = postID]
unstarPostCmd(postID) == [Free EXCEPT !.kind = "unstar", !.postID = postID]

FreeSlots == {n \in 1..MaxInflight : inflight[n].kind = "none"}

\* The command goes to the first free slot.
Issue(cmd) == [inflight EXCEPT ![Least(FreeSlots)] = cmd]

\* m.list.SelectedItem(): the item under the cursor, when there is one.
HasSelected == cursor >= 0 /\ cursor < Len(listItems)
SelectedID == listItems[cursor + 1]

TheKeys ==
    {"ctrl+c", "q", "g", "1", "2", "3", "G", "x", "u", "s", "enter", "j", "k", "/",
     "esc"}

\* What Update makes of a key: the model's fields after it, the command
\* returned (Free for nil), whether it is tea.Quit, and the URL handed to
\* openBrowser ("" for none).
Stay ==
    [screen |-> currentScreen, cursor |-> cursor, lastKey |-> lastKey,
     filter |-> settingFilter, cmd |-> Free, quit |-> FALSE, open |-> ""]

\* m.list.Update(msg) on a key, for a list of one page.  While the filter is
\* being entered, esc and enter end the entry and every other key goes to
\* the filter's text.  Otherwise j and k move the cursor and / starts the
\* entry of a filter, each only in a list that has items.
listUpdate(key) ==
    IF settingFilter
    THEN [Stay EXCEPT !.filter = key \notin {"esc", "enter"}]
    ELSE IF Len(listItems) = 0 THEN Stay
    ELSE CASE key = "j" ->
                [Stay EXCEPT !.cursor =
                    IF cursor + 1 < Len(listItems) THEN cursor + 1
                    ELSE IF cursor + 1 > Len(listItems) THEN 0
                    ELSE Len(listItems) - 1]
           [] key = "k" -> [Stay EXCEPT !.cursor = IF cursor - 1 >= 0 THEN cursor - 1 ELSE 0]
           [] key = "/" -> [Stay EXCEPT !.filter = TRUE, !.cursor = 0]
           [] OTHER -> Stay

\* A key of a screen that reloads also on that screen.
switchToAlways(screen, key) ==
    [Stay EXCEPT !.screen = screen, !.cmd = loadPostsCmd(screen)]

\* A key of a screen: the switch to it with its reload, or, on that screen
\* already, the key left to the list.
switchTo(screen, key) ==
    IF currentScreen # screen
    THEN [Stay EXCEPT !.screen = screen, !.cmd = loadPostsCmd(screen)]
    ELSE listUpdate(key)

\* Update looks at keys itself whatever the list is doing.
interceptsAlways == TRUE

\* The filter guard: Update looks at a key itself only when no filter is
\* being entered.
intercepts == ~settingFilter

\* case tea.KeyMsg of Update.  The deferred reset of m.lastKey runs after
\* the model to return has been copied out of m, so the model returned
\* keeps its lastKey on every key but g.
onKey(key) ==
    IF ~intercepts THEN listUpdate(key)
    ELSE CASE key \in {"ctrl+c", "q"} -> [Stay EXCEPT !.quit = TRUE]
           [] key = "g" ->
                IF lastKey = "g" THEN [Stay EXCEPT !.cursor = 0, !.lastKey = ""]
                ELSE [Stay EXCEPT !.lastKey = "g"]
           [] key = "1" -> switchTo("inbox", key)
           [] key = "2" -> switchTo("starred", key)
           [] key = "3" -> switchTo("archive", key)
           [] key = "G" -> [Stay EXCEPT !.cursor = Len(listItems) - 1]
           [] key = "x" ->
                IF currentScreen = "archive" THEN Stay
                ELSE IF HasSelected THEN [Stay EXCEPT !.cmd = archivePostCmd(SelectedID)]
                ELSE listUpdate(key)
           [] key = "u" ->
                IF currentScreen = "archive" /\ HasSelected
                THEN [Stay EXCEPT !.cmd = unarchivePostCmd(SelectedID)]
                ELSE IF currentScreen = "starred" /\ HasSelected
                THEN [Stay EXCEPT !.cmd = unstarPostCmd(SelectedID)]
                ELSE listUpdate(key)
           [] key = "s" ->
                IF currentScreen # "starred" /\ HasSelected
                THEN [Stay EXCEPT !.cmd = starPostCmd(SelectedID)]
                ELSE listUpdate(key)
           [] key = "enter" ->
                IF HasSelected THEN [Stay EXCEPT !.open = posts[SelectedID].url]
                ELSE Stay
           [] OTHER -> listUpdate(key)

\* The user presses a key and Update handles it.
KeyMsg ==
    /\ ~quit
    /\ keys < MaxKeys
    /\ \E key \in TheKeys :
         LET to == onKey(key) IN
         /\ to.cmd.kind # "none" => FreeSlots # {}
         /\ currentScreen' = to.screen
         /\ cursor' = to.cursor
         /\ lastKey' = to.lastKey
         /\ settingFilter' = to.filter
         /\ quit' = to.quit
         /\ inflight' = IF to.cmd.kind # "none" THEN Issue(to.cmd) ELSE inflight
         /\ opened' = IF to.open # "" THEN Append(opened, to.open) ELSE opened
    /\ keys' = keys + 1
    /\ guarded' = settingFilter
    /\ UNCHANGED << store, env, pc, feedList, fi, locals, trace, netFaults,
                    storeFaults, resolver, listItems >>

\* unstarPostCmd's err: fmt.Errorf("%w, %w", ...) of the two calls' errors,
\* which is an error whether they are nil or not.
unstarErr(unstarFailed, archiveFailed) == TRUE

\* The function of a command runs, on its own goroutine: the store call or
\* calls, and the message to deliver.
RunCmd ==
    /\ ~quit
    /\ \E n \in 1..MaxInflight :
         LET c == inflight[n] IN
         /\ c.kind # "none"
         /\ ~c.ran
         /\ \E ok \in StoreOutcomes, ok2 \in StoreOutcomes :
              /\ c.kind # "unstar" => ok2 = ok
              /\ posts' =
                   CASE c.kind = "load" -> posts
                     [] c.kind = "unstar" ->
                          LET rows == IF ok THEN UnstarPost(posts, c.postID) ELSE posts
                          IN IF ok2 THEN markPost(rows, c.postID, "archive") ELSE rows
                     [] OTHER -> IF ok THEN markPost(posts, c.postID, c.kind) ELSE posts
              /\ inflight' =
                   [inflight EXCEPT ![n] =
                      [c EXCEPT !.ran = TRUE,
                                !.posts = IF c.kind = "load" /\ ok
                                          THEN Listing(c.screen, posts) ELSE << >>,
                                !.err = IF c.kind = "unstar" THEN unstarErr(~ok, ~ok2)
                                        ELSE ~ok,
                                !.failed = ~ok \/ ~ok2]]
              /\ storeFaults' = IF ok /\ ok2 THEN storeFaults ELSE storeFaults - 1
    /\ UNCHANGED << feeds, env, pc, feedList, fi, locals, trace, netFaults, resolver,
                    currentScreen, listItems, cursor, lastKey, settingFilter, quit,
                    opened, keys, guarded >>

\* case loadPostsMsg of Update: the list takes the posts of the message and
\* the cursor stays, or goes to the last item when it is past the end.
LoadPostsMsg ==
    /\ ~quit
    /\ \E n \in 1..MaxInflight :
         LET msg == inflight[n] IN
         /\ msg.kind = "load"
         /\ msg.ran
         /\ inflight' = [inflight EXCEPT ![n] = Free]
         /\ IF msg.err
            THEN UNCHANGED << listItems, cursor >>
            ELSE /\ listItems' = msg.posts
                 /\ cursor' = IF cursor >= Len(msg.posts) /\ Len(msg.posts) > 0
                               THEN Len(msg.posts) - 1
                               ELSE cursor
    /\ UNCHANGED << store, env, pc, feedList, fi, locals, trace, netFaults,
                    storeFaults, resolver, currentScreen, lastKey, settingFilter,
                    quit, opened, keys, guarded >>

\* What each of the four cases of Update for the message of a store command
\* does with the message in slot n: nothing on an error, the reload of the
\* current screen otherwise.
reloadUnlessErr(n) ==
    /\ inflight[n].ran
    /\ inflight' = [inflight EXCEPT ![n] =
                       IF inflight[n].err THEN Free ELSE loadPostsCmd(currentScreen)]
    /\ UNCHANGED << store, env, pc, feedList, fi, locals, trace, netFaults,
                    storeFaults, resolver, currentScreen, listItems, cursor, lastKey,
                    settingFilter, quit, opened, keys, guarded >>

\* case archivePostMsg of Update.
ArchivePostMsg ==
    /\ ~quit
    /\ \E n \in 1..MaxInflight : inflight[n].kind = "archive" /\ reloadUnlessErr(n)

\* case unarchivePostMsg of Update.
UnarchivePostMsg ==
    /\ ~quit
    /\ \E n \in 1..MaxInflight : inflight[n].kind = "unarchive" /\ reloadUnlessErr(n)

\* case starPostMsg of Update.
StarPostMsg ==
    /\ ~quit
    /\ \E n \in 1..MaxInflight : inflight[n].kind = "star" /\ reloadUnlessErr(n)

\* case unstarPostMsg of Update.
UnstarPostMsg ==
    /\ ~quit
    /\ \E n \in 1..MaxInflight : inflight[n].kind = "unstar" /\ reloadUnlessErr(n)

NextBrowser ==
    \/ KeyMsg
    \/ RunCmd
    \/ LoadPostsMsg
    \/ ArchivePostMsg
    \/ UnarchivePostMsg
    \/ StarPostMsg
    \/ UnstarPostMsg

SpecBrowser == InitBrowser /\ [][NextBrowser]_vars

\* The browser over a store that never fails.
InitBrowserReliable == InitBrowser /\ storeFaults = 0

SpecBrowserReliable == InitBrowserReliable /\ [][NextBrowser]_vars

\* ------------------------------------------------------------- the claims

WriteCalls == {"CreatePost", "UpdateFeedFormat", "UpdateFeedDate"}

\* The entries of trace of kind ev about feed id.
EventsOf(ev, id) == {k \in 1..Len(trace) : trace[k].ev = ev /\ trace[k].feed = id}

\* A post without its id and flags: what ingestion supplies.
Supplied(row) ==
    [title |-> row.title, url |-> row.url, published_at |-> row.published_at,
     feed_id |-> row.feed_id]

SuppliedRows(rows) == [i \in 1..Len(rows) |-> Supplied(rows[i])]

\* C1: no two stored posts have the same (url, feed id) pair.
C1_UniqueUrlPerFeed ==
    \A i, j \in 1..Len(posts) :
        (posts[i].url = posts[j].url /\ posts[i].feed_id = posts[j].feed_id) => i = j

\* C1's case: in a second run over the same document, a batch that repeats
\* a URL has been offered to the store.
C1_Witness ==
    /\ runs = 2
    /\ pc = "format"
    /\ Len(items) = 2
    /\ items[1].URL = items[2].URL
    /\ Cardinality(EventsOf("CreatePost", feedList[fi].id)) = 2
    /\ Len(posts) >= 1

\* C2: a run over the same documents as the run before it leaves the posts
\* as they were: the same rows with the same url, title, timestamp and feed
\* id.  The site serves the same responses in every run, so every run after
\* the first repeats the first one's payloads.
C2_Idempotent ==
    [][runs' >= 2 => SuppliedRows(posts') = SuppliedRows(posts)]_vars

\* C2's case: the second run has offered an item to the store again.
C2_Witness ==
    /\ runs = 2
    /\ pc = "done"
    /\ \E k \in 1..Len(trace) : trace[k].ev = "CreatePost" /\ ~trace[k].err
    /\ Len(posts) >= 2

\* What a step of ingestion does to table post.
C3_StepKeepsPosts ==
    /\ Len(posts') >= Len(posts)
    /\ \A i \in 1..Len(posts) : posts'[i] = posts[i]
    /\ \A i \in (Len(posts) + 1)..Len(posts') :
         posts'[i].is_archived = 0 /\ posts'[i].is_starred = 0
    /\ (/\ pc = "items"
        /\ ~parseDateWithFormat(items[ii].Published, feedList[fi].date_format).err
        /\ conflicts(posts, items[ii].URL, feedList[fi].id))
       => /\ posts' = posts
          /\ Len(trace') = Len(trace) + 2
          /\ trace'[Len(trace')].ev = "CreatePost"
          /\ ~trace'[Len(trace')].err

\* C3: a step of ingestion never changes or removes a stored post and
\* creates posts with both flags unset; offering an item whose url is
\* already stored for the feed changes nothing and reports no error.
C3_IngestionKeepsPosts == [][marks' = marks => C3_StepKeepsPosts]_vars

\* C3's case: during a second run an item has been offered whose post the
\* user had archived or starred, under another title.
C3_Witness ==
    /\ runs = 2
    /\ pc = "format"
    /\ \E i \in 1..Len(posts), k \in 1..Len(items) :
         /\ posts[i].is_archived = 1 \/ posts[i].is_starred = 1
         /\ posts[i].feed_id = feedList[fi].id
         /\ posts[i].url = items[k].URL
         /\ posts[i].title # items[k].Title
         /\ ~parseDateWithFormat(items[k].Published, feedList[fi].date_format).err

\* The rows of table post of one feed, as ingestion supplied them.
PostsOfFeed(id) == SuppliedRows(SelectSeq(posts, LAMBDA row : row.feed_id = id))

\* What the item loop supplies for the items of its batch that resolve.
RECURSIVE SuppliedFrom(_, _, _)
SuppliedFrom(batch, feed, i) ==
    IF i > Len(batch) THEN << >>
    ELSE LET r == parseDateWithFormat(batch[i].Published, feed.date_format) IN
         (IF r.err THEN << >>
          ELSE << [title |-> batch[i].Title, url |-> batch[i].URL,
                   published_at |-> FormatRFC3339(r.t), feed_id |-> feed.id] >>)
         \o SuppliedFrom(batch, feed, i + 1)

Unresolved(batch, feed) ==
    {i \in 1..Len(batch) : parseDateWithFormat(batch[i].Published, feed.date_format).err}

DistinctUrls(batch) ==
    \A i, j \in 1..Len(batch) : batch[i].URL = batch[j].URL => i = j

Implemented(k) == feedList[k].feed_type \in {"rss", "atom"}

Printed(line, id) ==
    \E k \in 1..Len(trace) :
        trace[k].ev = "print" /\ trace[k].feed = id /\ trace[k].arg = line

\* C4: in the first run, when the item loop is over a batch of pairwise
\* distinct URLs in which exactly one item's date does not resolve, the
\* feed's posts are exactly the other items, in batch order; every item was
\* attempted, one was skipped with a printed line, the others were offered
\* to the store.  A run that skipped an item still fetches every feed of an
\* implemented type and writes the date of the feed of the skipped item.
C4_PerItemIsolation ==
    /\ (/\ pc = "format"
        /\ runs = 1
        /\ DistinctUrls(items)
        /\ Cardinality(Unresolved(items, feedList[fi])) = 1)
       => LET id == feedList[fi].id IN
          /\ PostsOfFeed(id) = SuppliedFrom(items, feedList[fi], 1)
          /\ Len(PostsOfFeed(id)) = Len(items) - 1
          /\ Cardinality(EventsOf("resolve", id)) = Len(items)
          /\ Cardinality({k \in EventsOf("resolve", id) : trace[k].err}) = 1
          /\ Cardinality({k \in EventsOf("print", id) :
                            trace[k].arg = "Failed parsing date for post"}) = 1
          /\ Cardinality(EventsOf("CreatePost", id)) = Len(items) - 1
    /\ pc = "done"
       => \A k \in 1..Len(feedList) :
            Printed("Failed parsing date for post", feedList[k].id)
            => /\ EventsOf("UpdateFeedDate", feedList[k].id) # {}
               /\ \A j \in 1..Len(feedList) :
                    Implemented(j) => EventsOf("http.Get", feedList[j].id) # {}

\* C4's case: the item loop is over a batch of two whose first item did not
\* resolve, with another feed to come.
C4_Witness ==
    /\ pc = "format"
    /\ runs = 1
    /\ Len(items) = 2
    /\ DistinctUrls(items)
    /\ Unresolved(items, feedList[fi]) = {1}
    /\ fi = 1
    /\ Len(feedList) = 2
    /\ Len(posts) = 1

\* The calls of a run for a feed that failed, and the feeds a run reaches.
C5_NoWritesForFailedFeed ==
    /\ \A k \in 1..Len(feedList) :
         Printed("Can't parse feed", feedList[k].id)
         => \A e \in WriteCalls \cup {"resolve"} : EventsOf(e, feedList[k].id) = {}
    /\ pc = "done"
       => \A k \in 1..Len(feedList) :
            Implemented(k) => EventsOf("http.Get", feedList[k].id) # {}

C5_FailingStep ==
    (/\ pc = "feed"
     /\ Len(trace') > Len(trace)
     /\ trace'[Len(trace')].ev = "print"
     /\ trace'[Len(trace')].arg = "Can't parse feed")
    => /\ feeds' = feeds
       /\ posts' = posts
       /\ fi' = fi + 1
       /\ pc' = NextFeedPc
       /\ items' = << >>
       /\ lastUpdatedAt' = ""
       /\ detectedFormat' = ""
       /\ needsFormatUpdate' = FALSE

\* C5: a feed whose fetch or decode failed gets no call that writes, and
\* the step that fails leaves the store as it is and goes on to the next
\* feed with the locals of a fresh iteration; a run that reaches its end
\* has fetched every feed of an implemented type.
C5_PerFeedIsolation == []C5_NoWritesForFailedFeed /\ [][C5_FailingStep]_vars

\* C5's case: the run is over, the first feed's fetch failed and the
\* second feed's item and date were written.
C5_Witness ==
    /\ pc = "done"
    /\ Len(feedList) = 2
    /\ Printed("Can't parse feed", feedList[1].id)
    /\ EventsOf("CreatePost", feedList[2].id) # {}
    /\ EventsOf("UpdateFeedDate", feedList[2].id) # {}
    /\ Len(posts) = 1

\* C6: a feed whose response has a status outside 200..299 has its body
\* never decoded and gets no call that writes.
C6_Non2xxIsFetchFailure ==
    \A k \in 1..Len(feedList) :
        (/\ pc # "idle"
         /\ web[feedList[k].url].status \notin 200..299)
        => \A e \in WriteCalls \cup {"xml.Unmarshal"} :
             EventsOf(e, feedList[k].id) = {}

\* The calls of a run from a custom feed on, and where the run stops.
C7_NothingFromCustomOn ==
    /\ \A k \in 1..Len(feedList) :
         feedList[k].feed_type = "custom"
         => /\ pc \in {"feed", "items", "format", "date"} => fi <= k
            /\ pc # "done"
            /\ \A j \in k..Len(feedList) :
                 \A e \in WriteCalls \cup {"http.Get", "xml.Unmarshal", "resolve"} :
                    EventsOf(e, feedList[j].id) = {}
    /\ pc = "fatal"
       => /\ feedList[fi].feed_type = "custom"
          /\ trace[Len(trace)] =
               Event("log.Fatal", feedList[fi].id,
                     "'custom' option is not implemented yet.", TRUE)

C7_HaltingStep ==
    /\ (pc = "feed" /\ feedList[fi].feed_type = "custom")
       => pc' = "fatal" /\ feeds' = feeds /\ posts' = posts
    /\ pc = "fatal" => runs' = runs + 1 \/ marks' = marks - 1

\* C7: no feed at or after a custom feed is fetched, decoded, resolved or
\* written in the run; the run is at fatal exactly when the feed it stopped
\* at is custom, with log.Fatal's line last.  The step that stops leaves the
\* store as it is, and from fatal nothing happens but the next run's start
\* and the browser's commands.
C7_CustomHaltsRun == []C7_NothingFromCustomOn /\ [][C7_HaltingStep]_vars

\* C7's case: the run stopped at a custom feed after storing a post of the
\* feed before it.
C7_Witness ==
    /\ pc = "fatal"
    /\ fi = 2
    /\ EventsOf("CreatePost", feedList[1].id) # {}
    /\ EventsOf("UpdateFeedDate", feedList[1].id) # {}
    /\ Len(posts) = 1

\* The trace of a run about a feed of an unknown type.
C8_NothingForUnknownType ==
    \A k \in 1..Len(feedList) :
        feedList[k].feed_type \notin {"rss", "atom", "custom"}
        => \A n \in 1..Len(trace) : trace[n].feed # feedList[k].id

C8_SkippingStep ==
    (pc = "feed" /\ feedList[fi].feed_type \notin {"rss", "atom", "custom"})
    => /\ feeds' = feeds
       /\ posts' = posts
       /\ trace' = trace
       /\ fi' = fi + 1
       /\ pc' = NextFeedPc

\* C8: a feed whose type is none of rss, atom, custom is the subject of no
\* call and no printed line, and the step that meets it changes nothing but
\* the place in the feed list.
C8_UnknownTypeSkipped == []C8_NothingForUnknownType /\ [][C8_SkippingStep]_vars

\* C8's case: the run is over; it skipped a first feed of an unknown type
\* and stored a post of the feed after it.
C8_Witness ==
    /\ pc = "done"
    /\ Len(feedList) = 2
    /\ feedList[1].feed_type = "weird"
    /\ EventsOf("CreatePost", feedList[2].id) # {}
    /\ Len(posts) = 1

\* Every item of the batch is a date string of layout F.
AllUse(batch, F) ==
    /\ Len(batch) >= 1
    /\ \A i \in 1..Len(batch) : ~timeParse(F, batch[i].Published).err

CandidateFormats == {formats[i] : i \in 1..Len(formats)}

\* The row of table feed with the id.
StoredHint(id) == CHOOSE k \in 1..Len(feeds) : feeds[k].id = id

\* C9: for a batch whose items all use one candidate format F, the detected
\* format is F from the first item on and the stored hint is F once the
\* hint step is over; in a run after the first, the hint read is F and
\* every item resolves in the hint branch, without a scan.
C9_FormatLearningConverges ==
    \A F \in CandidateFormats :
        (pc \in {"items", "format", "date"} /\ AllUse(items, F))
        => LET id == feedList[fi].id IN
           /\ ii > 1 => detectedFormat = F
           /\ pc = "date" => feeds[StoredHint(id)].date_format = ValidString(F)
           /\ runs >= 2
              => /\ feedList[fi].date_format = ValidString(F)
                 /\ \A k \in EventsOf("resolve", id) :
                      ~trace[k].err /\ trace[k].arg[2] = FALSE
                 /\ EventsOf("UpdateFeedFormat", id) = {}

\* C9's case: a second run is past the items of a batch of two in RFC1123Z,
\* all resolved.
C9_Witness ==
    /\ runs = 2
    /\ pc = "date"
    /\ Len(items) = 2
    /\ AllUse(items, RFC1123Z)
    /\ Cardinality(EventsOf("resolve", feedList[fi].id)) = 2

\* The first item of the batch with the URL of item i.
FirstWithUrl(batch, i) ==
    CHOOSE j \in 1..i :
        /\ batch[j].URL = batch[i].URL
        /\ \A m \in 1..(j - 1) : batch[m].URL # batch[i].URL

\* The state once the hint step is over, after a batch in another format.
C10_AfterDrift ==
    \A F2 \in CandidateFormats :
        (/\ pc = "date"
         /\ feedList[fi].date_format.Valid
         /\ feedList[fi].date_format.String # ""
         /\ AllUse(items, F2)
         /\ \A i \in 1..Len(items) :
              timeParse(feedList[fi].date_format.String, items[i].Published).err)
        => LET id == feedList[fi].id IN
           /\ \A i \in 1..Len(items) :
                /\ conflicts(posts, items[i].URL, id)
                /\ parseDateWithFormat(items[i].Published, feedList[fi].date_format)
                   = [t |-> timeParse(F2, items[i].Published).t, format |-> F2,
                      err |-> FALSE, scanned |-> TRUE]
           /\ runs = 1
              => \A i \in 1..Len(items) :
                   \E n \in 1..Len(posts) :
                      Supplied(posts[n]) =
                        SuppliedFrom(items, feedList[fi], 1)[FirstWithUrl(items, i)]
           /\ Cardinality(EventsOf("resolve", id)) = Len(items)
           /\ \A k \in EventsOf("resolve", id) : ~trace[k].err /\ trace[k].arg[2]
           /\ feeds[StoredHint(id)].date_format = ValidString(F2)
           /\ Cardinality(EventsOf("UpdateFeedFormat", id)) = 1
           /\ \A k \in EventsOf("UpdateFeedFormat", id) :
                trace[k].arg = F2 /\ ~trace[k].err

C10_DateStepKeepsHints ==
    pc = "date" => \A k \in 1..Len(feeds) : feeds'[k].date_format = feeds[k].date_format

\* C10: when the hint read is F1 and every item uses a candidate F2 that F1
\* does not parse, then once the hint step is over every item has resolved
\* by the scan with F2 and has a post (in the first run, the post of the
\* first item with its URL), the stored hint is F2, and the run
\* made exactly one hint update for the feed, to F2.  The step after it
\* leaves every hint as it is.
C10_HintFallbackOnDrift == []C10_AfterDrift /\ [][C10_DateStepKeepsHints]_vars

\* C10's case: the hint read was RFC3339, the batch is two items in
\* RFC1123Z with distinct URLs, and the hint step is over.
C10_Witness ==
    /\ pc = "date"
    /\ feedList[fi].date_format = ValidString(RFC3339)
    /\ Len(items) = 2
    /\ DistinctUrls(items)
    /\ AllUse(items, RFC1123Z)
    /\ Len(posts) = 2

\* The hint as parseDateWithFormat uses it: stored and not empty.
HasHint(hint) == hint.Valid /\ hint.String # ""

Parses(layout, dateStr) == \E e \in ParseTable : e[1] = layout /\ e[2] = dateStr

\* The format that resolves a date string under a hint: the hint when it
\* parses the string, or else the earliest candidate that does; "" when
\* nothing parses it.
ResolvingFormat(dateStr, hint) ==
    IF HasHint(hint) /\ Parses(hint.String, dateStr) THEN hint.String
    ELSE IF \E i \in 1..Len(formats) : Parses(formats[i], dateStr)
         THEN formats[CHOOSE i \in 1..Len(formats) :
                        /\ Parses(formats[i], dateStr)
                        /\ \A j \in 1..(i - 1) : ~Parses(formats[j], dateStr)]
         ELSE ""

\* The items of the batch attempted so far whose date resolves.
ResolvedSoFar ==
    {i \in 1..(ii - 1) : ResolvingFormat(items[i].Published, feedList[fi].date_format) # ""}

\* C11: while and after a feed's items are processed, the detected format
\* is the format that resolved the earliest resolved item of the batch, or
\* none when no item resolved yet; a hint update is due exactly when an item
\* resolved and the detected format is not the hint read (or none was
\* stored).  Once the hint step is over, a hint update was issued exactly
\* when one was due, with the detected format, and when no item resolved
\* the stored hint is the one read.
C11_FirstResolvedDetects ==
    pc \in {"items", "format", "date"}
    => LET hint == feedList[fi].date_format
           id == feedList[fi].id
           first == ResolvingFormat(items[Least(ResolvedSoFar)].Published, hint)
           due == /\ ResolvedSoFar # {}
                  /\ (~HasHint(hint) \/ hint.String # first)
       IN
       /\ detectedFormat = IF ResolvedSoFar = {} THEN "" ELSE first
       /\ needsFormatUpdate = due
       /\ pc = "date"
          => /\ EventsOf("UpdateFeedFormat", id) # {} <=> due
             /\ \A k \in EventsOf("UpdateFeedFormat", id) : trace[k].arg = first
             /\ ResolvedSoFar = {}
                => feeds[StoredHint(id)].date_format = hint

\* C11's case: the hint read was RFC1123Z, the batch is an item in RFC3339
\* followed by one in RFC1123Z, and the hint step is over: the update
\* issued carries RFC3339.
C11_Witness ==
    /\ pc = "date"
    /\ feedList[fi].date_format = ValidString(RFC1123Z)
    /\ Len(items) = 2
    /\ items[1].Published = DateA
    /\ items[2].Published = DateB
    /\ detectedFormat = RFC3339
    /\ \E k \in EventsOf("UpdateFeedFormat", feedList[fi].id) : trace[k].arg = RFC3339

\* The resolve calls of a run for the items of feed id.
ItemResolves(id) == {k \in EventsOf("resolve", id) : trace[k].arg[1] > 0}

\* The order of the calls of a run about each feed.
C12_HintUseInRun ==
    /\ \A f \in 1..Len(feedList) :
         LET id == feedList[f].id IN
         /\ \A k \in EventsOf("resolve", id) : trace[k].arg[3] = feedList[f].date_format
         /\ Cardinality(EventsOf("UpdateFeedFormat", id)) <= 1
         /\ \A w \in EventsOf("UpdateFeedFormat", id) :
              /\ \A k \in ItemResolves(id) \cup EventsOf("CreatePost", id) : k < w
              /\ \A k \in EventsOf("UpdateFeedDate", id) : w < k
    /\ pc = "date"
       => /\ Cardinality(ItemResolves(feedList[fi].id)) = Len(items)
          /\ EventsOf("UpdateFeedDate", feedList[fi].id) = {}

\* The list of feeds a run works on.
C12_ListedOnce ==
    /\ runs' # runs => feedList' = feeds
    /\ runs' = runs => feedList' = feedList

\* C12: a run works on the feed rows as they were stored when it began,
\* and every date of a feed, the items' and the feed level one, is resolved
\* with the hint of that row.  The run makes at most one hint update per
\* feed; it comes after every resolve and store call for the feed's items,
\* when each item of the batch has been attempted, and before the feed's
\* last-updated write.
C12_HintReadOnceWrittenOnce == []C12_HintUseInRun /\ [][C12_ListedOnce]_vars

\* C12's case: a run is over in which a feed's hint was updated after its
\* two items, and the feed level date was then resolved with the hint read
\* at the start, which is no longer the stored one.
C12_Witness ==
    /\ pc = "done"
    /\ \E f \in 1..Len(feedList) :
         LET id == feedList[f].id IN
         /\ Cardinality(ItemResolves(id)) = 2
         /\ EventsOf("UpdateFeedFormat", id) # {}
         /\ \E k \in EventsOf("resolve", id) : trace[k].arg[1] = 0
         /\ feeds[f].date_format # feedList[f].date_format

\* C13: a feed for which a CreatePost call of the run returned an error
\* gets no hint update in that run.
C13_NoHintUpdateAfterFailedWrite ==
    \A f \in 1..Len(feedList) :
        (\E k \in EventsOf("CreatePost", feedList[f].id) : trace[k].err)
        => EventsOf("UpdateFeedFormat", feedList[f].id) = {}

\* The batch the site serves to feed f over a network that works.
BatchOf(f) == getRSSFeed(web[feedList[f].url], "ok").items

\* The step in which a store call fails.
C17_FailingWrite ==
    storeFaults' < storeFaults
    => /\ pc \in {"items", "format", "date"}
       /\ Len(trace') >= 2
       /\ trace'[Len(trace')].ev = "print"
       /\ trace'[Len(trace')].arg =
            (CASE pc = "items" -> "Failed writing post"
               [] pc = "format" -> "Failed updating feed format"
               [] OTHER -> "Failed updating feed date")
       /\ trace'[Len(trace') - 1].err
       /\ trace'[Len(trace') - 1].ev =
            (CASE pc = "items" -> "CreatePost"
               [] pc = "format" -> "UpdateFeedFormat"
               [] OTHER -> "UpdateFeedDate")
       /\ pc = "items" => /\ ii' = ii + 1 /\ fi' = fi /\ items' = items
                          /\ pc' = IF ii + 1 > Len(items) THEN "format" ELSE "items"
       /\ pc = "format" => pc' = "date" /\ fi' = fi
       /\ pc = "date" => /\ fi' = fi + 1
                         /\ pc' = IF fi + 1 > Len(feedList) THEN "done" ELSE "feed"

\* What a run that reached its end has attempted, store errors or not.
C17_AllAttempted ==
    /\ pc # "fatal"
    /\ pc = "done"
       => \A f \in 1..Len(feedList) :
            LET id == feedList[f].id
                hint == feedList[f].date_format
                resolved == {i \in 1..Len(BatchOf(f)) :
                               ResolvingFormat(BatchOf(f)[i].Published, hint) # ""}
            IN
            /\ {trace[k].arg[1] : k \in ItemResolves(id)} = 1..Len(BatchOf(f))
            /\ Cardinality(EventsOf("CreatePost", id)) = Cardinality(resolved)
            /\ EventsOf("UpdateFeedFormat", id) # {}
               <=> (/\ resolved # {}
                    /\ (~HasHint(hint)
                        \/ hint.String #
                            ResolvingFormat(BatchOf(f)[Least(resolved)].Published, hint)))
            /\ Cardinality(EventsOf("UpdateFeedDate", id)) = 1

\* C17: a store call that fails is followed by its printed line and by
\* the step that follows a successful call: the next item, the feed's date
\* step, the next feed.  A run never stops on it: at its end every item of
\* every feed's batch was attempted, every resolved item was offered to the
\* store, the hint update was issued when one was due and every feed's
\* last-updated write was issued.
C17_StoreErrorsRecovered == []C17_AllAttempted /\ [][C17_FailingWrite]_vars

\* C17's case: the run is over; the write of the first item of the first
\* feed failed, its second item was stored and the second feed's date was
\* written.
C17_Witness ==
    /\ pc = "done"
    /\ Len(feedList) = 2
    /\ \E k \in EventsOf("CreatePost", feedList[1].id) :
         /\ trace[k].err
         /\ \E n \in EventsOf("CreatePost", feedList[1].id) : n > k /\ ~trace[n].err
    /\ \E n \in 1..Len(posts) : posts[n].feed_id = feedList[1].id
    /\ \E k \in EventsOf("UpdateFeedDate", feedList[2].id) : ~trace[k].err

\* What the site serves to feed f, decoded as the feed's type, over a
\* network that works.
DecodedFor(f) ==
    IF feedList[f].feed_type = "atom" THEN getAtomFeed(web[feedList[f].url], "ok")
    ELSE getRSSFeed(web[feedList[f].url], "ok")

\* The value to store for a feed level date: its canonical encoding when a
\* format resolves it, the string itself when none does.
CanonicalOrRaw(raw, hint) ==
    IF ResolvingFormat(raw, hint) # ""
    THEN FormatRFC3339(timeParse(ResolvingFormat(raw, hint), raw).t)
    ELSE raw

\* The step that ends a feed whose document has a last-updated string.
C15_DateStep ==
    (pc = "date" /\ lastUpdatedAt # "")
    => /\ feeds' = [feeds EXCEPT ![fi].last_updated_at =
                       ValidString(CanonicalOrRaw(lastUpdatedAt, feedList[fi].date_format))]
       /\ fi' = fi + 1
       /\ pc' = IF fi + 1 > Len(feedList) THEN "done" ELSE "feed"

\* The stored dates of the feeds of a run that reached its end.
C15_StoredDates ==
    pc = "done"
    => \A f \in 1..Len(feedList) :
         (/\ Implemented(f)
          /\ ~Printed("Can't parse feed", feedList[f].id)
          /\ DecodedFor(f).LastUpdated # "")
         => feeds[f].last_updated_at =
              ValidString(CanonicalOrRaw(DecodedFor(f).LastUpdated,
                                         feedList[f].date_format))

\* C15: the step that ends a feed whose document has a last-updated string
\* stores the canonical encoding of the string when it resolves and the
\* string itself when it does not, changes nothing else in table feed and
\* goes on to the next feed; at the end of a run every feed that was
\* fetched and decoded with such a string has that value stored.
C15_LastUpdatedBestEffort == []C15_StoredDates /\ [][C15_DateStep]_vars

\* C15's case: the run is over; the first feed's last-updated string did
\* not resolve and is stored as it came, and the second feed was processed
\* after it.
C15_Witness ==
    /\ pc = "done"
    /\ Len(feedList) = 2
    /\ feeds[1].last_updated_at = ValidString(DateBad)
    /\ EventsOf("UpdateFeedDate", feedList[2].id) # {}
    /\ \E k \in EventsOf("resolve", feedList[1].id) : trace[k].arg[1] = 0 /\ trace[k].err

\* C16: the step that ends a feed whose document has no last-updated
\* string leaves the feed's stored last-updated value as it is.
C16_AbsentDateKeepsStored ==
    [][(pc = "date" /\ lastUpdatedAt = "")
       => feeds'[fi].last_updated_at = feeds[fi].last_updated_at]_vars

\* The first item of the batch with the URL of item i whose date resolves.
FirstResolvedWithUrl(batch, feed, i) ==
    CHOOSE j \in 1..Len(batch) :
        /\ batch[j].URL = batch[i].URL
        /\ j \notin Unresolved(batch, feed)
        /\ \A m \in 1..(j - 1) :
             batch[m].URL = batch[i].URL => m \in Unresolved(batch, feed)

\* C18: once the item loop is over, every item of the batch whose date
\* resolves has exactly one post with its URL for the feed, and that post
\* carries the title and timestamp of the earliest item of the batch with
\* that URL whose date resolves; every such item was offered to the store
\* and no offer returned an error.
C18_EarliestDuplicateWins ==
    pc \in {"format", "date"}
    => LET feed == feedList[fi]
           resolved == (1..Len(items)) \ Unresolved(items, feed)
       IN
       /\ \A i \in resolved :
            LET first == items[FirstResolvedWithUrl(items, feed, i)] IN
            /\ Cardinality({n \in 1..Len(posts) :
                   posts[n].url = items[i].URL /\ posts[n].feed_id = feed.id}) = 1
            /\ \E n \in 1..Len(posts) :
                 Supplied(posts[n]) =
                   [title |-> first.Title, url |-> first.URL,
                    published_at |->
                        FormatRFC3339(timeParse(
                            ResolvingFormat(first.Published, feed.date_format),
                            first.Published).t),
                    feed_id |-> feed.id]
       /\ Cardinality(EventsOf("CreatePost", feed.id)) = Cardinality(resolved)
       /\ \A k \in EventsOf("CreatePost", feed.id) : ~trace[k].err

\* C18's case: the item loop is over a batch of two items with one URL,
\* two titles and two dates, both resolved.
C18_Witness ==
    /\ pc = "format"
    /\ runs = 1
    /\ Len(items) = 2
    /\ items[1].URL = items[2].URL
    /\ items[1].Title # items[2].Title
    /\ items[1].Published # items[2].Published
    /\ Unresolved(items, feedList[fi]) = {}
    /\ Len(PostsOfFeed(feedList[fi].id)) = 1

\* The candidates in the order of the list.
CandidateOrder ==
    << "2006-01-02T15:04:05Z07:00", "Mon, 02 Jan 2006 15:04:05 -0700",
       "Mon, 02 Jan 2006 15:04:05 MST", "02 Jan 06 15:04 -0700",
       "02 Jan 06 15:04 MST", "2006-01-02 15:04:05", "2006-01-02" >>

\* The instant a string denotes under a layout that parses it.
InstantOf(layout, dateStr) ==
    (CHOOSE e \in ParseTable : e[1] = layout /\ e[2] = dateStr)[3]

Quiescent == \A n \in 1..MaxInflight : inflight[n].kind = "none"

\* C19: whenever every command issued has run and every message has been
\* handled, the list shown is the listing of the current screen.
C19_QuiescentShowsCurrent ==
    Quiescent => listItems = Listing(currentScreen, posts)

\* C20: the step that handles the message of an unstar whose two store
\* calls succeeded issues the reload of the current screen.
C20_UnstarReloads ==
    [][\A n \in 1..MaxInflight :
         (/\ inflight[n].kind = "unstar"
          /\ inflight[n].ran
          /\ ~inflight[n].failed
          /\ inflight'[n] # inflight[n])
         => inflight'[n] = loadPostsCmd(currentScreen)]_vars

\* A step in which Update handles a key.
KeyStep == keys' = keys + 1

\* C21: outside filter entry a pending g does not outlive the next key: the
\* key after a single g either is a g, which jumps to the first item and
\* clears the pending g, or is another key, which resets it; so a jump
\* takes two consecutive g keys.
C21_PendingGLastsOneKey ==
    [][(KeyStep /\ ~settingFilter /\ lastKey = "g")
        => lastKey' = ""]_vars

\* The screen a key switches to.
ScreenOfKey == [k \in {"1", "2", "3"} |->
                  CASE k = "1" -> "inbox" [] k = "2" -> "starred" [] k = "3" -> "archive"]

\* C22: in every state, for every key: an archive command comes only from x
\* off the archive screen, a star command only from s off the starred
\* screen, an unarchive only from u on the archive screen and an unstar only
\* from u on the starred screen, each for the selected post; a reload comes
\* only from the key of a screen other than the one shown, for that screen.
C22_ScreenGatedKeys ==
    \A key \in TheKeys :
        LET c == onKey(key).cmd IN
        /\ c.kind = "archive" =>
             key = "x" /\ currentScreen # "archive" /\ HasSelected /\ c.postID = SelectedID
        /\ c.kind = "star" =>
             key = "s" /\ currentScreen # "starred" /\ HasSelected /\ c.postID = SelectedID
        /\ c.kind = "unarchive" =>
             key = "u" /\ currentScreen = "archive" /\ HasSelected /\ c.postID = SelectedID
        /\ c.kind = "unstar" =>
             key = "u" /\ currentScreen = "starred" /\ HasSelected /\ c.postID = SelectedID
        /\ c.kind = "load" =>
             /\ key \in DOMAIN ScreenOfKey
             /\ c.screen = ScreenOfKey[key]
             /\ c.screen # currentScreen
        /\ c.kind \in {"none", "archive", "star", "unarchive", "unstar", "load"}

\* u has issued the unstar of the post selected on the starred screen, and
\* there x would issue an archive and s and 2 nothing.
C22_Witness ==
    /\ currentScreen = "starred"
    /\ ~settingFilter
    /\ HasSelected
    /\ \E n \in 1..MaxInflight :
         inflight[n].kind = "unstar" /\ inflight[n].postID = SelectedID
    /\ onKey("x").cmd = archivePostCmd(SelectedID)
    /\ onKey("s").cmd = Free
    /\ onKey("2").cmd = Free

\* C23: a key pressed while a filter is being entered does not quit, does
\* not switch the screen, leaves the pending g as it is, opens no URL,
\* issues no command and changes no post.
C23_FilterGuard ==
    [][(KeyStep /\ settingFilter)
        => /\ quit' = quit
           /\ currentScreen' = currentScreen
           /\ lastKey' = lastKey
           /\ opened' = opened
           /\ inflight' = inflight
           /\ posts' = posts]_vars

\* A key was handled during the entry of a filter, off the inbox and with a
\* g pending and a post selected.
C23_Witness ==
    /\ guarded
    /\ lastKey = "g"
    /\ currentScreen # "inbox"
    /\ HasSelected
    /\ ~quit

\* C24: the step that handles the message of a load: after an error the
\* list and the cursor are as before; otherwise the list is that of the
\* message and the cursor is the one before when that is an index of the new
\* list, the last index when the one before is past the end of a new list
\* with items, and in every case an index of the new list, 0 when the new
\* list is empty.
C24_CursorAfterReload ==
    [][\A n \in 1..MaxInflight :
         (/\ inflight[n].kind = "load"
          /\ inflight[n].ran
          /\ inflight'[n] = Free)
         => IF inflight[n].err
            THEN listItems' = listItems /\ cursor' = cursor
            ELSE LET new == inflight[n].posts IN
                 /\ listItems' = new
                 /\ cursor \in 0..(Len(new) - 1) => cursor' = cursor
                 /\ (cursor >= Len(new) /\ Len(new) > 0) => cursor' = Len(new) - 1
                 /\ Len(new) > 0 => cursor' \in 0..(Len(new) - 1)
                 /\ Len(new) = 0 => cursor' = 0]_vars

====
